---- MODULE Spec2Model ----
(***************************************************************************)
(* A model of bn.c, the fixed-width unsigned big-number arithmetic of      *)
(* philpem/bignum.  A BIGNUM is an array of BN_SZ limbs of BN_BASE_BITS    *)
(* bits, least significant limb first.  Buffers live in a memory `mem`     *)
(* that maps a buffer's name (the pointer the C code passes) to its limbs, *)
(* so that a call whose output aliases an input reads what it has already  *)
(* written, as the C code does.                                            *)
(*                                                                         *)
(* The limb is scaled from 16 bits to BN_BASE_BITS = 2 bits and the number *)
(* of limbs from 4 to NumLimbs, so that every operand can be enumerated.   *)
(* The accumulators BN_EXT / BN_EXT_SIGNED hold at most 2*BN_BASE_MAX + 1  *)
(* in magnitude, which always fits twice the limb width; they are modelled *)
(* as unbounded integers.  `m >>= 16` on the signed accumulator of bn_sub  *)
(* is the arithmetic shift every supported compiler produces (floor        *)
(* division), and `m & BN_BASE_MAX` on a negative two's-complement value   *)
(* is the mathematical modulus.                                            *)
(***************************************************************************)
EXTENDS Integers, Sequences, FiniteSets, TLC

(* ------------------------------------------------------------------ *)
(* Configuration (bn.c lines 22-52)                                    *)
(* ------------------------------------------------------------------ *)

\* Number of limbs of the model (4 in the reference configuration).
NumLimbs == 2

\* Number of bits in a BN_BASE element (16 in the reference configuration).
BN_BASE_BITS == 2

\* The size of a BIGNUM in bits.
BN_BITS == NumLimbs * BN_BASE_BITS

\* Number of BN_BASE elements required to store BN_BITS bits.
BN_SZ == BN_BITS \div BN_BASE_BITS

RECURSIVE Pow2(_)
Pow2(n) == IF n <= 0 THEN 1 ELSE 2 * Pow2(n - 1)

\* Maximum value of a single BN_BASE element.
BN_BASE_MAX == Pow2(BN_BASE_BITS) - 1

\* Width of the native integer bn_load_int takes (uint64_t == BN_BITS bits in
\* the reference configuration).
UINT64_BITS == BN_BITS

BN_OK == 0
BN_E_OVERFLOW == 1
BN_E_NEGATIVE == 2
BN_E_DIVIDE_BY_ZERO == 3

\* The null pointer.
NULL == "NULL"

Limbs == 0 .. (BN_SZ - 1)
BIGNUM == [Limbs -> 0 .. BN_BASE_MAX]

\* What a call returns: its error code and the memory it leaves.
Ret(e, m) == [err |-> e, mem |-> m]

\* bn_copy and bn_clear return BN_OK and nothing else, so the callers' tests of
\* their return are not modelled: they are given as the memory they leave.

\* A callee's frame: the caller's memory plus the callee's local BIGNUMs.
\* Every local is written in full (bn_copy, bn_clear) before it is read.
Frame(mem, locals) == mem @@ [x \in locals |-> [i \in Limbs |-> 0]]

\* Back in the caller: the callee's locals are gone.
Leave(mem, caller) == [x \in DOMAIN caller |-> mem[x]]

(* ------------------------------------------------------------------ *)
(* Storage primitives                                                  *)
(* ------------------------------------------------------------------ *)

bn_copy(mem, a, out) == [mem EXCEPT ![out] = mem[a]]

bn_clear(mem, out) == [mem EXCEPT ![out] = [i \in Limbs |-> 0]]

bn_get_bit(mem, a, bit) ==
    LET nelem == bit \div BN_BASE_BITS
        mask  == Pow2(bit % BN_BASE_BITS)
    IN  IF (mem[a][nelem] \div mask) % 2 = 1 THEN 1 ELSE 0

bn_set_bit(mem, a, bit, val) ==
    LET nelem == bit \div BN_BASE_BITS
        mask  == Pow2(bit % BN_BASE_BITS)
        isset == (mem[a][nelem] \div mask) % 2 = 1
    IN  IF val # 0
        THEN [mem EXCEPT ![a][nelem] = IF isset THEN @ ELSE @ + mask]
        ELSE [mem EXCEPT ![a][nelem] = IF isset THEN @ - mask ELSE @]

bn_iszero(mem, a) == \A i \in Limbs : mem[a][i] = 0

RECURSIVE cmp_loop(_, _, _, _)
cmp_loop(mem, a, b, i) ==
    IF i < 0 THEN 0
    ELSE IF mem[a][i] < mem[b][i] THEN -1
    ELSE IF mem[a][i] > mem[b][i] THEN 1
    ELSE cmp_loop(mem, a, b, i - 1)

bn_cmp(mem, a, b) == cmp_loop(mem, a, b, BN_SZ - 1)

(* ------------------------------------------------------------------ *)
(* Linear arithmetic                                                   *)
(* ------------------------------------------------------------------ *)

\* m & BN_BASE_MAX
LowLimb(m) == m % (BN_BASE_MAX + 1)

\* m >>= (sizeof(a[0])*8)
ShiftDown(m) == m \div (BN_BASE_MAX + 1)

\* add_acc, had the carry of the limb below been dropped.
add_acc_nocarry(m, x, y) == x + y

\* bn_add: m += ((BN_EXT)a[i] + (BN_EXT)b[i])
add_acc(m, x, y) == m + (x + y)

RECURSIVE add_loop(_, _, _, _, _, _)
add_loop(mem, a, b, out, i, m) ==
    IF i >= BN_SZ THEN [mem |-> mem, m |-> m]
    ELSE LET m1 == add_acc(m, mem[a][i], mem[b][i])
         IN  add_loop([mem EXCEPT ![out][i] = LowLimb(m1)], a, b, out,
                      i + 1, ShiftDown(m1))

bn_add(mem, a, b, out) ==
    LET l == add_loop(mem, a, b, out, 0, 0)
    IN  IF l.m # 0 THEN Ret(BN_E_OVERFLOW, l.mem) ELSE Ret(BN_OK, l.mem)

\* sub_acc, had the borrow of the limb below been dropped.
sub_acc_noborrow(m, x, y) == x - y

\* bn_sub: m = ((BN_EXT_SIGNED)a[i] - (BN_EXT_SIGNED)b[i]) + m
sub_acc(m, x, y) == (x - y) + m

RECURSIVE sub_loop(_, _, _, _, _, _)
sub_loop(mem, a, b, out, i, m) ==
    IF i >= BN_SZ THEN [mem |-> mem, m |-> m]
    ELSE LET m1 == sub_acc(m, mem[a][i], mem[b][i])
         IN  sub_loop([mem EXCEPT ![out][i] = LowLimb(m1)], a, b, out,
                      i + 1, ShiftDown(m1))

\* BN_TRAP_NEGATIVE is #undef'd: the final borrow is not looked at.
bn_sub(mem, a, b, out) ==
    LET l == sub_loop(mem, a, b, out, 0, 0)
    IN  Ret(BN_OK, l.mem)

RECURSIVE shl_loop(_, _, _, _, _)
shl_loop(mem, a, out, i, m) ==
    IF i >= BN_SZ THEN mem
    ELSE LET m1 == m + mem[a][i] * 2
         IN  shl_loop([mem EXCEPT ![out][i] = LowLimb(m1)], a, out,
                      i + 1, ShiftDown(m1))

bn_shl(mem, a, out) ==
    LET m0 == IF a # out THEN bn_copy(mem, a, out) ELSE mem
    IN  Ret(BN_OK, shl_loop(m0, a, out, 0, 0))

\* shr_carry, had the bit been left at the bottom of the limb.
shr_carry_low(tmp) == tmp % 2

\* bn_shr: m = (tmp & 1) << ((sizeof(a[0]) * 8)-1)
shr_carry(tmp) == (tmp % 2) * Pow2(BN_BASE_BITS - 1)

RECURSIVE shr_loop(_, _, _, _, _)
shr_loop(mem, a, out, i, m) ==
    IF i < 0 THEN mem
    ELSE LET tmp == mem[a][i]
         IN  shr_loop([mem EXCEPT ![out][i] = LowLimb(m + (mem[a][i] \div 2))],
                      a, out, i - 1, shr_carry(tmp))

bn_shr(mem, a, out) ==
    LET m0 == IF a # out THEN bn_copy(mem, a, out) ELSE mem
    IN  Ret(BN_OK, shr_loop(m0, a, out, BN_SZ - 1, 0))

(* ------------------------------------------------------------------ *)
(* Composite arithmetic                                                *)
(* ------------------------------------------------------------------ *)

\* bn_mul: if ((err = bn_add(out, b_l, out)) != BN_OK) return err;
mul_add(mem, out) == bn_add(mem, out, "b_l", out)

\* bn_shl, had it reported the bit it shifts out of the top limb.
mul_shl_checked(mem) ==
    LET r == bn_shl(mem, "b_l", "b_l")
    IN  IF bn_get_bit(mem, "b_l", BN_BITS - 1) # 0
        THEN Ret(BN_E_OVERFLOW, r.mem)
        ELSE r

\* bn_mul: if ((err = bn_shl(b_l, b_l)) != BN_OK) return err;
mul_shl(mem) == bn_shl(mem, "b_l", "b_l")

RECURSIVE mul_loop(_, _)
mul_loop(mem, out) ==
    IF bn_iszero(mem, "a_l") THEN Ret(BN_OK, mem)
    ELSE LET s1 == IF bn_get_bit(mem, "a_l", 0) # 0
                   THEN mul_add(mem, out)
                   ELSE Ret(BN_OK, mem)
         IN  IF s1.err # BN_OK THEN s1
             ELSE LET s2 == bn_shr(s1.mem, "a_l", "a_l")
                      s3 == mul_shl(s2.mem)
                  IN  IF s2.err # BN_OK THEN s2
                      ELSE IF s3.err # BN_OK THEN s3
                      ELSE mul_loop(s3.mem, out)

bn_mul(mem, a, b, out) ==
    LET m0 == Frame(mem, {"a_l", "b_l"})
        m1 == bn_copy(m0, a, "a_l")
        m2 == bn_copy(m1, b, "b_l")
        m3 == bn_clear(m2, out)
        l  == mul_loop(m3, out)
    IN  Ret(l.err, Leave(l.mem, mem))

\* div_ge, had the test been r > d.
div_ge_strict(c) == c > 0

\* bn_div: if (bn_cmp(r_l, d) >= 0)
div_ge(c) == c >= 0

\* The returns of bn_sub and bn_set_bit are not looked at.
RECURSIVE div_loop(_, _, _, _, _)
div_loop(mem, n, d, q, i) ==
    IF i < 0 THEN Ret(BN_OK, mem)
    ELSE LET s1 == bn_shl(mem, "r_l", "r_l")
             m2 == bn_set_bit(s1.mem, "r_l", 0, bn_get_bit(s1.mem, n, i))
         IN  IF s1.err # BN_OK THEN s1
             ELSE IF div_ge(bn_cmp(m2, "r_l", d))
             THEN LET m3 == bn_sub(m2, "r_l", d, "r_l").mem
                      m4 == IF q # NULL THEN bn_set_bit(m3, q, i, 1) ELSE m3
                  IN  div_loop(m4, n, d, q, i - 1)
             ELSE div_loop(m2, n, d, q, i - 1)

\* div_zero, had the check been left out.
div_zero_unchecked(mem, d) == FALSE

\* bn_div: if (bn_iszero(d)) return BN_E_DIVIDE_BY_ZERO;
div_zero(mem, d) == bn_iszero(mem, d)

bn_div(mem, n, d, q, r) ==
    IF div_zero(mem, d) THEN Ret(BN_E_DIVIDE_BY_ZERO, mem)
    ELSE LET m0 == Frame(mem, {"r_l"})
             m1 == IF q # NULL THEN bn_clear(m0, q) ELSE m0
             m2 == bn_clear(m1, "r_l")
             l  == div_loop(m2, n, d, q, BN_BITS - 1)
         IN  IF l.err # BN_OK THEN Ret(l.err, Leave(l.mem, mem))
             ELSE IF r # NULL
             THEN Ret(BN_OK, Leave(bn_copy(l.mem, "r_l", r), mem))
             ELSE Ret(BN_OK, Leave(l.mem, mem))

RECURSIVE load_loop(_, _, _, _)
load_loop(mem, out, x, pos) ==
    IF x > 0
    THEN LET m1 == [mem EXCEPT ![out][pos] = LowLimb(x)]
             x1 == x \div Pow2(BN_BASE_BITS)
         IN  IF pos + 1 >= BN_SZ THEN Ret(BN_E_OVERFLOW, m1)
             ELSE load_loop(m1, out, x1, pos + 1)
    ELSE Ret(BN_OK, mem)

bn_load_int(mem, i, out) == load_loop(bn_clear(mem, out), out, i, 0)

(* ------------------------------------------------------------------ *)
(* Modular exponentiation                                              *)
(* ------------------------------------------------------------------ *)

\* if ((err = bn_div(tmp, modulus, NULL, out)) != BN_OK) return err;
\* reached only when the bn_mul before it, `s`, returned BN_OK.
pow_reduce(s, modulus, out) ==
    IF s.err # BN_OK THEN s
    ELSE bn_div(s.mem, "tmp", modulus, NULL, out)

\* If LSBit of exponent is set: result := (result * base) mod modulus
pow_multiply(mem, modulus, result) ==
    IF bn_get_bit(mem, "exponent_l", 0) # 0
    THEN pow_reduce(bn_mul(mem, result, "base_l", "tmp"), modulus, result)
    ELSE Ret(BN_OK, mem)

\* if ((err = bn_shr(exponent_l, exponent_l)) != BN_OK) return err;
pow_shift(s) ==
    IF s.err # BN_OK THEN s
    ELSE bn_shr(s.mem, "exponent_l", "exponent_l")

\* base = (base * base) mod modulus
pow_square(s, modulus) ==
    IF s.err # BN_OK THEN s
    ELSE pow_reduce(bn_mul(s.mem, "base_l", "base_l", "tmp"), modulus, "base_l")

RECURSIVE pow_loop(_, _, _)

\* The next round of the loop, unless the round `s` returned an error.
pow_next(s, modulus, result) ==
    IF s.err # BN_OK THEN s
    ELSE pow_loop(s.mem, modulus, result)

pow_loop(mem, modulus, result) ==
    IF bn_iszero(mem, "exponent_l") THEN Ret(BN_OK, mem)
    ELSE pow_next(pow_square(pow_shift(pow_multiply(mem, modulus, result)),
                             modulus),
                  modulus, result)

bn_powmod(mem, base, exponent, modulus, result) ==
    LET m0 == Frame(mem, {"base_l", "exponent_l", "tmp"})
        s1 == bn_load_int(m0, 1, result)
    IN  IF s1.err # BN_OK THEN Ret(s1.err, Leave(s1.mem, mem))
        ELSE LET m2 == bn_copy(s1.mem, base, "base_l")
                 m3 == bn_copy(m2, exponent, "exponent_l")
                 l  == pow_loop(m3, modulus, result)
             IN  Ret(l.err, Leave(l.mem, mem))

(* ------------------------------------------------------------------ *)
(* The driver: main() declares four BIGNUMs, loads operands into them  *)
(* with bn_load_int and calls one operation on them.                   *)
(* ------------------------------------------------------------------ *)

VARIABLES
    mem,      \* the caller's BIGNUMs a, b, c, d
    before,   \* mem as it was when the last operation was called
    err,      \* the BN_ERR the last call returned
    pc,       \* where the driver is
    op,       \* the last function called
    ival,     \* the native integer given to the last bn_load_int
    qarg,     \* the q pointer given to bn_div
    rarg      \* the r pointer given to bn_div

vars == <<mem, before, err, pc, op, ival, qarg, rarg>>

Bufs == {"a", "b", "c", "d"}

\* The values a uint64_t holds.
UINT64 == 0 .. (Pow2(UINT64_BITS) - 1)

\* BIGNUM a, b, c, d; on the stack, not initialised: whatever bytes were there.
Init ==
    /\ \E f \in {0, BN_BASE_MAX} : mem = [x \in Bufs |-> [i \in Limbs |-> f]]
    /\ before = mem
    /\ err = BN_OK
    /\ pc = "start"
    /\ op = "none"
    /\ ival = 0
    /\ qarg = NULL
    /\ rarg = NULL

\* The call `r` was made as `name`; the driver moves to `next`.
Called(name, r, next) ==
    /\ before' = mem
    /\ mem' = r.mem
    /\ err' = r.err
    /\ op' = name
    /\ pc' = next

LoadA ==
    /\ pc = "start"
    /\ \E v \in UINT64 :
         /\ ival' = v
         /\ Called("bn_load_int", bn_load_int(mem, v, "a"), "a_loaded")
    /\ UNCHANGED <<qarg, rarg>>

LoadB ==
    /\ pc = "a_loaded"
    /\ \E v \in UINT64 :
         /\ ival' = v
         /\ Called("bn_load_int", bn_load_int(mem, v, "b"), "b_loaded")
    /\ UNCHANGED <<qarg, rarg>>

LoadC ==
    /\ pc = "b_loaded"
    /\ \E v \in UINT64 :
         /\ ival' = v
         /\ Called("bn_load_int", bn_load_int(mem, v, "c"), "c_loaded")
    /\ UNCHANGED <<qarg, rarg>>

Add ==
    /\ pc = "b_loaded"
    /\ Called("bn_add", bn_add(mem, "a", "b", "c"), "done")
    /\ UNCHANGED <<ival, qarg, rarg>>

Sub ==
    /\ pc = "b_loaded"
    /\ Called("bn_sub", bn_sub(mem, "a", "b", "c"), "done")
    /\ UNCHANGED <<ival, qarg, rarg>>

ShlInPlace ==
    /\ pc = "b_loaded"
    /\ Called("bn_shl", bn_shl(mem, "a", "a"), "done")
    /\ UNCHANGED <<ival, qarg, rarg>>

ShlCopy ==
    /\ pc = "b_loaded"
    /\ Called("bn_shl", bn_shl(mem, "a", "c"), "shifted")
    /\ UNCHANGED <<ival, qarg, rarg>>

ShrInPlace ==
    /\ pc = "b_loaded"
    /\ Called("bn_shr", bn_shr(mem, "a", "a"), "done")
    /\ UNCHANGED <<ival, qarg, rarg>>

ShrCopy ==
    /\ pc = "b_loaded"
    /\ Called("bn_shr", bn_shr(mem, "a", "c"), "shifted")
    /\ UNCHANGED <<ival, qarg, rarg>>

\* copy(y, x) after shift(x, y); `before` keeps the memory the shift was given.
CopyBack ==
    /\ pc = "shifted"
    /\ mem' = bn_copy(mem, "c", "a")
    /\ err' = BN_OK
    /\ pc' = "copied"
    /\ UNCHANGED <<before, op, ival, qarg, rarg>>

Mul ==
    /\ pc = "b_loaded"
    /\ Called("bn_mul", bn_mul(mem, "a", "b", "c"), "done")
    /\ UNCHANGED <<ival, qarg, rarg>>

Div ==
    /\ pc = "b_loaded"
    /\ \E q \in {"c", NULL}, r \in {"d", NULL} :
         /\ qarg' = q
         /\ rarg' = r
         /\ Called("bn_div", bn_div(mem, "a", "b", q, r), "done")
    /\ UNCHANGED ival

PowMod ==
    /\ pc = "c_loaded"
    /\ Called("bn_powmod", bn_powmod(mem, "a", "b", "c", "d"), "done")
    /\ UNCHANGED <<ival, qarg, rarg>>

Next ==
    \/ LoadA
    \/ LoadB
    \/ Add
    \/ Sub
    \/ ShlInPlace
    \/ ShlCopy
    \/ ShrInPlace
    \/ ShrCopy
    \/ CopyBack
    \/ Mul
    \/ Div

Spec == Init /\ [][Next]_vars

\* The powmod demo of main(): three operands are loaded, then bn_powmod runs.
NextPow ==
    \/ LoadA
    \/ LoadB
    \/ LoadC
    \/ PowMod

SpecPow == Init /\ [][NextPow]_vars

(* ------------------------------------------------------------------ *)
(* Properties                                                          *)
(* ------------------------------------------------------------------ *)

\* The unsigned integer a limb array stands for: the sum of limb[i] * base^i.
RECURSIVE ValFrom(_, _)
ValFrom(x, i) ==
    IF i >= BN_SZ THEN 0 ELSE x[i] + (BN_BASE_MAX + 1) * ValFrom(x, i + 1)

Val(x) == ValFrom(x, 0)

\* 2^W
TwoW == Pow2(BN_BITS)

\* base^exponent mod modulus, by the definition of exponentiation.
RECURSIVE ModPow(_, _, _)
ModPow(base, exponent, modulus) ==
    IF exponent = 0 THEN 1 % modulus
    ELSE (base * ModPow(base, exponent - 1, modulus)) % modulus

\* The operands the last call was given.
A0 == Val(before["a"])
B0 == Val(before["b"])
C0 == Val(before["c"])

TypeOK ==
    /\ mem \in [Bufs -> BIGNUM]
    /\ before \in [Bufs -> BIGNUM]
    /\ err \in {BN_OK, BN_E_OVERFLOW, BN_E_NEGATIVE, BN_E_DIVIDE_BY_ZERO}

\* C1: for every numerator n and non-zero divisor d, bn_div(n, d, q, r) returns
\* BN_OK with q * d + r = n and r < d; with r NULL the quotient is the same
\* n / d, and with q NULL the remainder is the same n % d.
C1_DivideCorrect ==
    (op = "bn_div" /\ B0 # 0) =>
        /\ err = BN_OK
        /\ (qarg # NULL /\ rarg # NULL) =>
              /\ Val(mem["c"]) * B0 + Val(mem["d"]) = A0
              /\ Val(mem["d"]) < B0
        /\ (qarg # NULL) => Val(mem["c"]) = A0 \div B0
        /\ (rarg # NULL) => Val(mem["d"]) = A0 % B0

\* A division with the quotient omitted, a quotient above 1 and a remainder.
C1_Witness ==
    /\ op = "bn_div"
    /\ qarg = NULL
    /\ rarg = "d"
    /\ B0 > BN_BASE_MAX
    /\ A0 > 2 * B0
    /\ Val(mem["d"]) > 0

\* C2: for every numerator, bn_div(n, 0, q, r) returns BN_E_DIVIDE_BY_ZERO and
\* leaves every limb of q and of r as it was before the call.
C2_DivideByZero ==
    (op = "bn_div" /\ B0 = 0) =>
        /\ err = BN_E_DIVIDE_BY_ZERO
        /\ mem["c"] = before["c"]
        /\ mem["d"] = before["d"]

\* A division by zero given both outputs, which held non-zero limbs.
C2_Witness ==
    /\ op = "bn_div"
    /\ B0 = 0
    /\ A0 > 0
    /\ qarg = "c"
    /\ rarg = "d"
    /\ Val(before["c"]) # 0
    /\ Val(before["d"]) # 0

\* C3: bn_add(a, b, out) returns BN_E_OVERFLOW iff a + b >= 2^W and BN_OK
\* otherwise, and in both cases out = (a + b) mod 2^W.
C3_AddOverflow ==
    (op = "bn_add") =>
        /\ err \in {BN_OK, BN_E_OVERFLOW}
        /\ (err = BN_E_OVERFLOW) <=> (A0 + B0 >= TwoW)
        /\ Val(mem["c"]) = (A0 + B0) % TwoW

\* An addition that overflows, with a carry out of the low limb.
C3_Witness ==
    /\ op = "bn_add"
    /\ err = BN_E_OVERFLOW
    /\ before["a"][0] + before["b"][0] > BN_BASE_MAX
    /\ Val(mem["c"]) > 0

\* C4: bn_mul(a, b, out), out aliasing neither, returns BN_OK and leaves
\* out = (a * b) mod 2^W; a product above W bits is never reported.
C4_MultiplyWraps ==
    (op = "bn_mul") =>
        /\ err = BN_OK
        /\ Val(mem["c"]) = (A0 * B0) % TwoW

\* The buffer the last bn_load_int was given.
LoadedBuf == IF pc = "a_loaded" THEN "a" ELSE IF pc = "b_loaded" THEN "b" ELSE "c"

\* C5: bn_load_int(value, out) returns BN_OK with out = value for every value
\* that fits in W bits, and BN_E_OVERFLOW only for a value that needs more
\* than BN_SZ limbs.
C5_LoadInt ==
    (op = "bn_load_int") =>
        /\ (ival < TwoW) => (err = BN_OK /\ Val(mem[LoadedBuf]) = ival)
        /\ (err = BN_E_OVERFLOW) => (ival >= TwoW)

\* C6: for every base, exponent and non-zero modulus, bn_powmod returns BN_OK
\* with result = base^exponent mod modulus.
C6_PowMod ==
    (op = "bn_powmod" /\ C0 # 0) =>
        /\ err = BN_OK
        /\ Val(mem["d"]) = ModPow(A0, B0, C0)

\* C7: bn_powmod with a zero modulus returns BN_E_DIVIDE_BY_ZERO for every
\* base and exponent, and the result buffer holds what it held before.
C7_PowModZeroModulus ==
    (op = "bn_powmod" /\ C0 = 0) =>
        /\ err = BN_E_DIVIDE_BY_ZERO
        /\ mem["d"] = before["d"]

\* C8: with BN_TRAP_NEGATIVE undefined, bn_sub(a, b, out) returns BN_OK and
\* leaves out = (a - b) mod 2^W, also when a < b.
C8_SubtractWraps ==
    (op = "bn_sub") =>
        /\ err = BN_OK
        /\ Val(mem["c"]) = (A0 - B0) % TwoW
        /\ (A0 < B0) => Val(mem["c"]) = TwoW + A0 - B0

\* A subtraction of a larger number, with a borrow out of the low limb.
C8_Witness ==
    /\ op = "bn_sub"
    /\ A0 < B0
    /\ before["a"][0] < before["b"][0]
    /\ err = BN_OK

\* C9: bn_shl(x, x) and bn_shr(x, x) leave in x what bn_shl(x, y) and
\* bn_shr(x, y) followed by bn_copy(y, x) leave there, 2x mod 2^W and
\* floor(x / 2); with distinct buffers the source x is unchanged.
C9_ShiftInPlace ==
    /\ (op = "bn_shl" /\ pc \in {"done", "copied"}) =>
          Val(mem["a"]) = (2 * A0) % TwoW
    /\ (op = "bn_shr" /\ pc \in {"done", "copied"}) =>
          Val(mem["a"]) = A0 \div 2
    /\ (op = "bn_shl" /\ pc = "shifted") =>
          (mem["a"] = before["a"] /\ Val(mem["c"]) = (2 * A0) % TwoW)
    /\ (op = "bn_shr" /\ pc = "shifted") =>
          (mem["a"] = before["a"] /\ Val(mem["c"]) = A0 \div 2)
    /\ (op \in {"bn_shl", "bn_shr"}) => err = BN_OK

\* An in-place right shift that moves a bit from one limb into the next.
C9_Witness ==
    /\ op = "bn_shr"
    /\ pc = "done"
    /\ before["a"][1] % 2 = 1
    /\ before["a"][0] % 2 = 1
    /\ mem["a"][0] > BN_BASE_MAX \div 2

\* C10: bn_mul returns BN_OK or BN_E_OVERFLOW; BN_E_OVERFLOW only when
\* a * b >= 2^W; with BN_OK out = (a * b) mod 2^W; with BN_E_OVERFLOW out is
\* the partial sum over the low bits of a that bn_add was adding, truncated.
C10_MultiplyOverflow ==
    (op = "bn_mul") =>
        /\ err \in {BN_OK, BN_E_OVERFLOW}
        /\ (err = BN_E_OVERFLOW) => (A0 * B0 >= TwoW)
        /\ (A0 * B0 < TwoW) => err = BN_OK
        /\ (err = BN_OK) => Val(mem["c"]) = (A0 * B0) % TwoW
        /\ (err = BN_E_OVERFLOW) =>
              \E k \in 1 .. BN_BITS :
                  Val(mem["c"]) = ((A0 % Pow2(k)) * B0) % TwoW

\* A multiplication bn_mul reports as overflowing, leaving a partial sum that
\* is not the truncated product.
C10_Witness ==
    /\ op = "bn_mul"
    /\ err = BN_E_OVERFLOW
    /\ Val(mem["c"]) # (A0 * B0) % TwoW

====
